---- MODULE Spec2Model ----
(***************************************************************************)
(* Model of the routing service of the Climate-Aware GPS Navigator:        *)
(* RoutingService.calculate_route / compare_routes                         *)
(* (app/services/routing_service.py) behind the /calculate and /compare    *)
(* endpoints (app/api/endpoints/routing.py), over a database whose road    *)
(* and hazard tables are rewritten by a concurrent ingestion job.          *)
(*                                                                         *)
(* Floats are carried as scaled integers: risk scores in hundredths        *)
(* (0.3 -> 30), distances in meters, durations in seconds.  Quotients are  *)
(* carried as reduced fractions [num, den].                                *)
(***************************************************************************)
EXTENDS Integers, Sequences, FiniteSets, TLC

\* ---------------------------------------------------------------- bounds
MaxRefresh == 1      \* snapshot refreshes by the ingestion job in one run
MaxCalls == 1        \* further requests of one client in SeqSpec
MaxTime == 1         \* clock ticks in one run
MaxRisk == 4         \* MetricSpec: risk scores 0.0, 0.1, ... up to MaxRisk tenths
MaxDur == 3          \* MetricSpec: durations of 600 s, 1200 s, ... up to MaxDur * 600 s
MaxRequests == 3     \* AppSpec: HTTP requests answered in one run
MaxLookups == 1      \* StoreSpec: GET /route/{route_id} requests after the first request
MaxFields == 5       \* BBoxSpec: comma-separated fields of a bbox parameter
MaxWeight == 1000    \* CostSpec: magnitude of a weight set by the environment, in tenths

\* ------------------------------------------------------- the environment
Coords == {1, 2}               \* query coordinates a caller may supply
NoNode == 0                    \* Python None (and every falsy node id)
Nodes == {1, 3}                \* road_network ids a lookup may return
Roads == {1, 2, 3}             \* road ids: 1 = A->B, 2 = B->C, 3 = A->C
RoadFrom == <<1, 2, 1>>
RoadTo == <<2, 3, 3>>

RouteTypes == {"fastest", "safest", "balanced"}
CompareOrder == <<"fastest", "safest", "balanced">>

\* the avoid lists a caller may send; <<"None">> stands for an absent list
NoAvoid == <<"None">>
AvoidLists == {NoAvoid, <<>>, <<"flood">>}

VARIABLES
    nearest,           \* road_network: coordinate -> nearest node within 0.01 deg, or NoNode
    floodExposed,      \* road_hazard_intersections: roads with an active flood exposure
    hazards,           \* hazard_zones, weather_alerts: the features and their validity
    version,           \* number of refreshes committed by the ingestion job
    engine,            \* hazard intersection engine: snapshots, exposure cache, query
    settings,          \* Settings(): the risk scoring weights, in tenths
    cost,              \* the value the last edge_cost call returned
    routes,            \* committed rows of table routes
    segments,          \* committed rows of table route_segments
    comparisons,       \* committed rows of table route_comparisons
    nextId,            \* uuid4(): the next unused identifier
    now,               \* datetime.utcnow()
    served,            \* number of requests answered before the one being served
    delivered,         \* the routes returned before it: request and route, oldest first
    pc,                \* position of the request being served
    req,               \* the request being served
    stage,             \* compare_routes: index of the calculate_route call in progress
    origin_node,       \* calculate_route local
    destination_node,  \* calculate_route local
    snap,              \* the lookups of this request in order: version read, node found
    route_result,      \* calculate_route local
    route,             \* calculate_route local: the Route row of this call
    results,           \* responses returned by the calculate_route calls so far
    metrics,           \* compare_routes locals safety_trade_off, risk_reduction
    exc,               \* exception leaving the service call
    http,              \* what the HTTP caller receives
    log                \* logger.error lines of the request being served

world == <<nearest, floodExposed, hazards, version>>
store == <<routes, segments, comparisons>>
locals == <<origin_node, destination_node, snap, route_result, route, results, metrics>>
pricing == <<settings, cost>>
vars == <<nearest, floodExposed, hazards, version, engine, settings, cost, routes, segments, comparisons, nextId,
          now, served, delivered, pc, req, stage, origin_node, destination_node, snap,
          route_result, route, results, metrics, exc, http, log>>

\* ------------------------------------------------------------ exceptions
NoExc == [type |-> "None", msg |-> ""]
NotFoundError == [type |-> "ValueError",
                  msg |-> "Could not find road network nodes near origin or destination"]
NoRouteFoundError == [type |-> "ValueError",
                      msg |-> "No route found between origin and destination"]
CommitError == [type |-> "SQLAlchemyError", msg |-> "commit failed"]
ValidationError == [type |-> "ValidationError", msg |-> "response schema"]
ZeroDivisionError == [type |-> "ZeroDivisionError", msg |-> "float division by zero"]

\* ------------------------------------------------------------ HTTP layer
NoHttp == [status |-> 0, detail |-> "", body |-> <<>>]
CalculateFailed == [status |-> 500, detail |-> "Failed to calculate route", body |-> <<>>]
CompareFailed == [status |-> 500, detail |-> "Failed to compare routes", body |-> <<>>]
Ok(body) == [status |-> 200, detail |-> "", body |-> <<body>>]

\* except Exception as e: raise HTTPException(status_code=500, ...); a
\* caller of the service itself (kind "direct") has no endpoint in between
EndpointError(kind, e) ==
    IF kind = "calculate" THEN CalculateFailed
    ELSE IF kind = "compare" THEN CompareFailed
    ELSE NoHttp

\* ------------------------------------------------------- the search stub
NoResult == [found |-> FALSE]

\* avoid_hazards or ["flood"]
EffectiveAvoid(avoid) == IF avoid = NoAvoid \/ avoid = <<>> THEN <<"flood">> ELSE avoid

PgRoutingRouteAtCallTime(o, d, route_type, avoid, depart_time) ==
    [found |-> TRUE,
     total_distance |-> 10000,
     total_duration |-> 1200 + 60 * now,
     risk_score |-> 30,
     risk_factors |-> [flood |-> 20, weather |-> 10],
     avoided_hazards |-> <<"flood_zone_1", "weather_alert_2">>,
     segments |-> << [road_id |-> 1, distance |-> 5000, duration |-> 600,
                      risk_score |-> 20, hazards |-> <<>>] >>]

PgRoutingRouteAllHazards(o, d, route_type, avoid, depart_time) ==
    [found |-> TRUE,
     total_distance |-> 10000,
     total_duration |-> 1200,
     risk_score |-> 30 + 10 * Cardinality({ h \in hazards : h.road = 1 }),
     risk_factors |-> [flood |-> 20, weather |-> 10],
     avoided_hazards |-> <<"flood_zone_1", "weather_alert_2">>,
     segments |-> << [road_id |-> 1, distance |-> 5000, duration |-> 600,
                      risk_score |-> 20, hazards |-> <<>>] >>]

PgRoutingRouteByType(o, d, route_type, avoid, depart_time) ==
    [found |-> TRUE,
     total_distance |-> 10000,
     total_duration |-> 1200,
     risk_score |-> IF route_type = "safest" THEN 40 ELSE 30,
     risk_factors |-> [flood |-> 20, weather |-> 10],
     avoided_hazards |-> <<"flood_zone_1", "weather_alert_2">>,
     segments |-> << [road_id |-> 1, distance |-> 5000, duration |-> 600,
                      risk_score |-> 20, hazards |-> <<>>] >>]

\* _calculate_pgrouting_route: the placeholder result
PgRoutingRoute(o, d, route_type, avoid, depart_time) ==
    [found |-> TRUE,
     total_distance |-> 10000,
     total_duration |-> 1200,
     risk_score |-> 30,
     risk_factors |-> [flood |-> 20, weather |-> 10],
     avoided_hazards |-> <<"flood_zone_1", "weather_alert_2">>,
     segments |-> << [road_id |-> 1, distance |-> 5000, duration |-> 600,
                      risk_score |-> 20, hazards |-> <<>>] >>]

\* ------------------------------------------------------ hazard features
NoEnd == -1                    \* expiration_date / effective_end not set
NoDepart == -1                 \* depart_time = None

\* every road_hazard_intersections row refers to a hazard_zones row: the
\* zones behind a set of exposed roads, with no expiration date
OpenZones(exposed) == { [road |-> r, effective_end |-> NoEnd] : r \in exposed }

\* ------------------------------------------- hazard intersection engine
NoPin == -1                    \* no query in progress

\* the engine before any snapshot is loaded into it
NoEngine == [snapshots |-> <<>>, cache |-> {}, pinned |-> NoPin, served |-> {}]

\* ---------------------------------------------------- risk scoring weights
\* Settings: the five weights as declared, in tenths (1.0 -> 10)
DefaultSettings ==
    [floodplain_weight |-> 10,
     river_forecast_weight |-> 8,
     rain_intensity_weight |-> 6,
     alert_severity_weight |-> 9,
     historic_incident_weight |-> 4]

\* no edge_cost call has returned yet
NoCost == [computed |-> FALSE, value |-> 0]

\* ----------------------------------------------------------------- Init
\* an empty store, no request yet
Fresh ==
    /\ version = 0
    /\ routes = {}
    /\ segments = {}
    /\ comparisons = {}
    /\ nextId = 1
    /\ now = 0
    /\ served = 0
    /\ delivered = <<>>
    /\ pc = "idle"
    /\ req = [kind |-> "none"]
    /\ stage = 0
    /\ origin_node = NoNode
    /\ destination_node = NoNode
    /\ snap = <<>>
    /\ route_result = NoResult
    /\ route = 0
    /\ results = <<>>
    /\ metrics = <<>>
    /\ exc = NoExc
    /\ http = NoHttp
    /\ log = {}
    /\ cost = NoCost

Init ==
    /\ nearest \in [Coords -> Nodes \cup {NoNode}]
    /\ floodExposed \in SUBSET Roads
    /\ hazards = OpenZones(floodExposed)
    /\ engine = NoEngine
    /\ settings = DefaultSettings
    /\ Fresh

\* ------------------------------------------------------------ fractions
RECURSIVE GCD(_, _)
GCD(a, b) == IF b = 0 THEN a ELSE GCD(b, a % b)

Abs(x) == IF x < 0 THEN -x ELSE x

\* the quotient n / d (d > 0) as a reduced fraction
Frac(n, d) ==
    LET g == GCD(Abs(n), d)
    IN  [num |-> n \div g, den |-> d \div g]

\* -------------------------------------------------- comparison metrics
SafetyTradeOffAbs(fastest_duration, safest_duration) ==
    Frac(Abs(safest_duration - fastest_duration), 60)

\* safety_trade_off = (safest.duration - fastest.duration) / 60
SafetyTradeOff(fastest_duration, safest_duration) ==
    Frac(safest_duration - fastest_duration, 60)

RiskReductionOverSafest(fastest_risk, safest_risk) ==
    IF safest_risk = 0
    THEN [error |-> TRUE, value |-> Frac(0, 1)]
    ELSE [error |-> FALSE, value |-> Frac((fastest_risk - safest_risk) * 100, safest_risk)]

\* risk_reduction = ((fastest.risk - safest.risk) / fastest.risk) * 100
\* Python raises ZeroDivisionError when the divisor is 0 (also for floats)
RiskReduction(fastest_risk, safest_risk) ==
    IF fastest_risk = 0
    THEN [error |-> TRUE, value |-> Frac(0, 1)]
    ELSE [error |-> FALSE, value |-> Frac((fastest_risk - safest_risk) * 100, fastest_risk)]

\* ------------------------------------------------------------ responses
ValidHours == 1

\* the type of the calculate_route call in progress
CurType == IF req.kind = "compare" THEN CompareOrder[stage] ELSE req.route_type

\* Route(...) built from the search result
RouteRow(id, r, rr, route_type, t) ==
    [id |-> id,
     origin |-> r.origin,
     destination |-> r.destination,
     total_distance_meters |-> rr.total_distance,
     total_duration_seconds |-> rr.total_duration,
     risk_score |-> rr.risk_score,
     route_type |-> route_type,
     risk_factors |-> rr.risk_factors,
     avoided_hazards |-> rr.avoided_hazards,
     calculated_at |-> t,
     valid_until |-> t + ValidHours]

SegmentRowOneBased(id, route_id, i, sd) ==
    [id |-> id,
     route_id |-> route_id,
     road_id |-> sd.road_id,
     segment_order |-> i + 1,
     distance_meters |-> sd.distance,
     duration_seconds |-> sd.duration,
     risk_score |-> sd.risk_score,
     hazard_intersections |-> sd.hazards]

\* RouteSegment(...) for the i-th entry (from 0) of route_result["segments"]
SegmentRow(id, route_id, i, sd) ==
    [id |-> id,
     route_id |-> route_id,
     road_id |-> sd.road_id,
     segment_order |-> i,
     distance_meters |-> sd.distance,
     duration_seconds |-> sd.duration,
     risk_score |-> sd.risk_score,
     hazard_intersections |-> sd.hazards]

SegmentRows(first_id, route_id, rr) ==
    { SegmentRow(first_id + i - 1, route_id, i - 1, rr.segments[i]) :
        i \in 1..Len(rr.segments) }

\* _convert_segment_to_schema
ConvertSegmentToSchema(s) ==
    [segment_id |-> s.id,
     distance_meters |-> s.distance_meters,
     duration_seconds |-> s.duration_seconds,
     risk_score |-> s.risk_score,
     hazards |-> <<>>]

\* the rows of a set of segments as a list in ascending segment_order
RECURSIVE OrderedSegments(_)
OrderedSegments(S) ==
    IF S = {} THEN <<>>
    ELSE LET s == CHOOSE x \in S : \A y \in S : x.segment_order <= y.segment_order
         IN  <<s>> \o OrderedSegments(S \ {s})

\* RouteResponse(...) built from the stored route and its segments
RouteResponse(rt, segs) ==
    [route_id |-> rt.id,
     route_type |-> rt.route_type,
     total_distance_meters |-> rt.total_distance_meters,
     total_duration_seconds |-> rt.total_duration_seconds,
     risk_score |-> rt.risk_score,
     segments |-> [i \in 1..Len(segs) |-> ConvertSegmentToSchema(segs[i])],
     risk_factors |-> rt.risk_factors,
     avoided_hazards |-> rt.avoided_hazards,
     calculated_at |-> rt.calculated_at,
     valid_until |-> rt.valid_until]

ComparisonRowSwapped(id, r, res, m, t) ==
    [id |-> id,
     origin |-> r.origin,
     destination |-> r.destination,
     fastest_route_id |-> res[2].route_id,
     safest_route_id |-> res[1].route_id,
     balanced_route_id |-> res[3].route_id,
     fastest_duration |-> res[1].total_duration_seconds,
     safest_duration |-> res[2].total_duration_seconds,
     balanced_duration |-> res[3].total_duration_seconds,
     fastest_risk |-> res[1].risk_score,
     safest_risk |-> res[2].risk_score,
     balanced_risk |-> res[3].risk_score,
     safety_trade_off_minutes |-> m.safety_trade_off,
     risk_reduction_percent |-> m.risk_reduction,
     compared_at |-> t]

\* RouteComparison(...) row
ComparisonRow(id, r, res, m, t) ==
    [id |-> id,
     origin |-> r.origin,
     destination |-> r.destination,
     fastest_route_id |-> res[1].route_id,
     safest_route_id |-> res[2].route_id,
     balanced_route_id |-> res[3].route_id,
     fastest_duration |-> res[1].total_duration_seconds,
     safest_duration |-> res[2].total_duration_seconds,
     balanced_duration |-> res[3].total_duration_seconds,
     fastest_risk |-> res[1].risk_score,
     safest_risk |-> res[2].risk_score,
     balanced_risk |-> res[3].risk_score,
     safety_trade_off_minutes |-> m.safety_trade_off,
     risk_reduction_percent |-> m.risk_reduction,
     compared_at |-> t]

\* RouteComparisonResponse(...)
RouteComparisonResponse(row, r, res, m) ==
    [comparison_id |-> row.id,
     origin |-> r.origin,
     destination |-> r.destination,
     fastest_route |-> res[1],
     safest_route |-> res[2],
     balanced_route |-> res[3],
     safety_trade_off_minutes |-> m.safety_trade_off,
     risk_reduction_percent |-> m.risk_reduction,
     compared_at |-> row.compared_at]

\* ------------------------------------------------------- error handling
\* except Exception: logger.error(...); self.db.rollback(); raise
\* in calculate_route and in compare_routes, then the endpoint's
\* except Exception: raise HTTPException(500).  The rollback discards what
\* the session holds uncommitted; rows already committed stay.
RaisePartial(e, in_calculate, lines) ==
    /\ exc' = e
    /\ log' = log \cup lines
                  \cup (IF in_calculate THEN {"Error calculating route"} ELSE {})
                  \cup (IF req.kind = "compare" THEN {"Error comparing routes"} ELSE {})
    /\ http' = IF req.kind = "compare" THEN Ok(results) ELSE EndpointError(req.kind, e)
    /\ pc' = "done"

Raise(e, in_calculate, lines) ==
    /\ exc' = e
    /\ log' = log \cup lines
                  \cup (IF in_calculate THEN {"Error calculating route"} ELSE {})
                  \cup (IF req.kind = "compare" THEN {"Error comparing routes"} ELSE {})
    /\ http' = EndpointError(req.kind, e)
    /\ pc' = "done"

\* --------------------------------------------------------------- actions
\* POST /calculate and POST /compare: the endpoint builds the service and
\* calls it with the fields of the request
StartAt(kind, o, d, t, a, depart_time) ==
    /\ pc = "idle"
    /\ req' = [kind |-> kind, origin |-> o, destination |-> d,
               route_type |-> t, avoid |-> a, depart_time |-> depart_time]
    /\ stage' = 1
    /\ pc' = "find_origin"
    /\ UNCHANGED <<world, engine, pricing, store, nextId, now, served, delivered, locals, exc, http, log>>

\* a request that gives no depart_time
Start(kind, o, d, t, a) == StartAt(kind, o, d, t, a, NoDepart)

StartCalculate ==
    \E o \in Coords, t \in RouteTypes, a \in AvoidLists :
        \E d \in Coords \ {o} : Start("calculate", o, d, t, a)

StartCompare ==
    \E o \in Coords, a \in AvoidLists :
        \E d \in Coords \ {o} : Start("compare", o, d, "", a)

\* _find_nearest_node: the row nearest to the point, None when the query
\* finds none or when it raises
FindNearestNode(c, db_ok) == IF db_ok THEN nearest[c] ELSE NoNode

\* origin_node = await self._find_nearest_node(origin_lat, origin_lon)
FindOrigin ==
    /\ pc = "find_origin"
    /\ \E db_ok \in BOOLEAN :
        /\ origin_node' = FindNearestNode(req.origin, db_ok)
        /\ log' = IF db_ok THEN log ELSE log \cup {"Error finding nearest node"}
    /\ snap' = Append(snap, [version |-> version, node |-> origin_node'])
    /\ pc' = "find_destination"
    /\ UNCHANGED <<world, engine, pricing, store, nextId, now, served, delivered, req, stage, destination_node,
                   route_result, route, results, metrics, exc, http>>

NodesMissingOriginOnly(o, d) == o = NoNode

\* if not origin_node or not destination_node
NodesMissing(o, d) == o = NoNode \/ d = NoNode

\* destination_node = await self._find_nearest_node(...); then the check
FindDestination ==
    /\ pc = "find_destination"
    /\ \E db_ok \in BOOLEAN :
        LET d == FindNearestNode(req.destination, db_ok)
            lines == IF db_ok THEN {} ELSE {"Error finding nearest node"}
        IN  /\ destination_node' = d
            /\ snap' = Append(snap, [version |-> version, node |-> d])
            /\ IF NodesMissing(origin_node, d)
               THEN Raise(NotFoundError, TRUE, lines)
               ELSE /\ pc' = "search"
                    /\ log' = log \cup lines
                    /\ UNCHANGED <<exc, http>>
    /\ UNCHANGED <<world, engine, pricing, store, nextId, now, served, delivered, req, stage, origin_node,
                   route_result, route, results, metrics>>

\* route_result = await self._calculate_pgrouting_route(...): the
\* placeholder, or None when its try block raises; then the check
Search ==
    /\ pc = "search"
    /\ \E ok \in BOOLEAN :
        LET rr == IF ok
                  THEN PgRoutingRoute(origin_node, destination_node, CurType,
                                      EffectiveAvoid(req.avoid), req.depart_time)
                  ELSE NoResult
            lines == IF ok THEN {} ELSE {"Error in pgRouting calculation"}
        IN  /\ route_result' = rr
            /\ IF ~rr.found
               THEN Raise(NoRouteFoundError, TRUE, lines)
               ELSE /\ pc' = "commit_route"
                    /\ log' = log \cup lines
                    /\ UNCHANGED <<exc, http>>
    /\ UNCHANGED <<world, engine, pricing, store, nextId, now, served, delivered, req, stage, origin_node,
                   destination_node, snap, route, results, metrics>>

\* route = Route(...); self.db.add(route); self.db.commit(); refresh.
\* The commit is the database's to accept or refuse (the placeholder's
\* geometry is None, which a NOT NULL route_geom column refuses).
CommitRoute ==
    /\ pc = "commit_route"
    /\ \E db_ok \in BOOLEAN :
        IF db_ok
        THEN /\ routes' = routes \cup {RouteRow(nextId, req, route_result, CurType, now)}
             /\ route' = nextId
             /\ nextId' = nextId + 1
             /\ pc' = "commit_segments"
             /\ UNCHANGED <<exc, http, log>>
        ELSE /\ Raise(CommitError, TRUE, {})
             /\ UNCHANGED <<routes, route, nextId>>
    /\ UNCHANGED <<world, engine, pricing, segments, comparisons, now, served, delivered, req, stage, origin_node,
                   destination_node, snap, route_result, results, metrics>>

\* what follows a returned RouteResponse: the endpoint answers, or
\* compare_routes goes on to its next call
Return(resp) ==
    /\ results' = Append(results, resp)
    /\ IF req.kind # "compare"
       THEN /\ http' = IF req.kind = "calculate" THEN Ok(resp) ELSE http
            /\ pc' = "done"
            /\ UNCHANGED <<stage, origin_node, destination_node, route_result, route>>
       ELSE /\ http' = http
            /\ IF stage < Len(CompareOrder)
               THEN /\ stage' = stage + 1
                    /\ pc' = "find_origin"
                    /\ origin_node' = NoNode
                    /\ destination_node' = NoNode
                    /\ route_result' = NoResult
                    /\ route' = 0
               ELSE /\ pc' = "compare_metrics"
                    /\ UNCHANGED <<stage, origin_node, destination_node,
                                   route_result, route>>

\* the segments loop, self.db.commit(), then return RouteResponse(...).
\* RouteResponse validates its fields and raises when one does not fit the
\* schema (the placeholder's avoided_hazards are strings where the schema
\* wants HazardInfo objects); both outcomes are kept.
CommitSegments ==
    /\ pc = "commit_segments"
    /\ \E outcome \in {"commit_fails", "response_fails", "ok"} :
        LET rows == SegmentRows(nextId, route, route_result)
            stored == CHOOSE r \in routes : r.id = route
        IN  /\ IF outcome = "commit_fails"
               THEN UNCHANGED <<segments, nextId>>
               ELSE /\ segments' = segments \cup rows
                    /\ nextId' = nextId + Cardinality(rows)
            /\ IF outcome = "ok"
               THEN /\ Return(RouteResponse(stored, OrderedSegments(rows)))
                    /\ UNCHANGED <<exc, log>>
               ELSE /\ Raise(IF outcome = "commit_fails" THEN CommitError
                             ELSE ValidationError, TRUE, {})
                    /\ UNCHANGED <<stage, origin_node, destination_node,
                                   route_result, route, results>>
    /\ UNCHANGED <<world, engine, pricing, routes, comparisons, now, served, delivered, req, snap, metrics>>

\* the metrics, RouteComparison(...), add, commit, then return
\* RouteComparisonResponse(...), which can raise like RouteResponse
CompareFinish ==
    /\ pc = "compare_metrics"
    /\ LET safety_trade_off == SafetyTradeOff(results[1].total_duration_seconds,
                                              results[2].total_duration_seconds)
           risk_reduction == RiskReduction(results[1].risk_score, results[2].risk_score)
           m == [safety_trade_off |-> safety_trade_off,
                 risk_reduction |-> risk_reduction.value]
           row == ComparisonRow(nextId, req, results, m, now)
       IN  IF risk_reduction.error
           THEN /\ Raise(ZeroDivisionError, FALSE, {})
                /\ UNCHANGED <<comparisons, nextId, metrics>>
           ELSE \E outcome \in {"commit_fails", "response_fails", "ok"} :
                /\ metrics' = <<m>>
                /\ IF outcome = "commit_fails"
                   THEN UNCHANGED <<comparisons, nextId>>
                   ELSE /\ comparisons' = comparisons \cup {row}
                        /\ nextId' = nextId + 1
                /\ IF outcome = "ok"
                   THEN /\ http' = Ok(RouteComparisonResponse(row, req, results, m))
                        /\ pc' = "done"
                        /\ UNCHANGED <<exc, log>>
                   ELSE Raise(IF outcome = "commit_fails" THEN CommitError
                              ELSE ValidationError, FALSE, {})
    /\ UNCHANGED <<world, engine, pricing, routes, segments, now, served, delivered, req, stage, origin_node,
                   destination_node, snap, route_result, route, results>>

\* the ingestion job replaces the road and hazard data in one transaction.
\* The service reads that data in its lookups and in its search only, so a
\* refresh at any other moment is the same run as one just before the read.
Refresh ==
    /\ version < MaxRefresh
    /\ pc \in {"find_origin", "find_destination", "search"}
    /\ version' = version + 1
    /\ nearest' \in [Coords -> Nodes \cup {NoNode}]
    /\ floodExposed' \in SUBSET Roads
    /\ hazards' = OpenZones(floodExposed')
    /\ UNCHANGED <<engine, pricing, store, nextId, now, served, delivered, pc, req, stage, locals,
                   exc, http, log>>

\* time passes; the clock is read where rows are built, so a tick at any
\* other moment is the same run as one just before the read
Tick ==
    /\ now < MaxTime
    /\ pc \in {"commit_route", "compare_metrics"}
    /\ now' = now + 1
    /\ UNCHANGED <<world, engine, pricing, store, nextId, served, delivered, pc, req, stage, locals, exc, http, log>>

\* the client, answered, sends its next request: a new RoutingService on
\* the same database
Again ==
    /\ pc = "done"
    /\ served < MaxCalls
    /\ served' = served + 1
    /\ delivered' = IF http.status = 200
                    THEN Append(delivered, [req |-> req, route |-> http.body[1],
                                            hazards |-> hazards])
                    ELSE delivered
    /\ pc' = "idle"
    /\ req' = [kind |-> "none"]
    /\ stage' = 0
    /\ origin_node' = NoNode
    /\ destination_node' = NoNode
    /\ snap' = <<>>
    /\ route_result' = NoResult
    /\ route' = 0
    /\ results' = <<>>
    /\ metrics' = <<>>
    /\ exc' = NoExc
    /\ http' = NoHttp
    /\ log' = {}
    /\ UNCHANGED <<world, engine, pricing, store, nextId, now>>

Next ==
    \/ StartCalculate
    \/ StartCompare
    \/ FindOrigin
    \/ FindDestination
    \/ Search
    \/ CommitRoute
    \/ CommitSegments
    \/ CompareFinish
    \/ Refresh
    \/ Tick

\* one request against a database that the ingestion job refreshes
Spec == Init /\ [][Next]_vars

\* a sequence of route requests of one client against unchanging road data
InitSeq ==
    /\ Init
    /\ floodExposed = {}

NextSeq ==
    \/ StartCalculate
    \/ FindOrigin
    \/ FindDestination
    \/ Search
    \/ CommitRoute
    \/ CommitSegments
    \/ Tick
    \/ Again

SeqSpec == InitSeq /\ [][NextSeq]_vars

\* ------------------------------------------------- stored routes by id
QueryError == [type |-> "SQLAlchemyError", msg |-> "query failed"]
RouteNotFound == [status |-> 404, detail |-> "Route not found", body |-> <<>>]
RetrieveFailed == [status |-> 500, detail |-> "Failed to retrieve route", body |-> <<>>]

SegmentsOfAnyRoute(route_id) == segments

\* query(RouteSegment).filter(RouteSegment.route_id == route_id)
SegmentsOf(route_id) == { s \in segments : s.route_id = route_id }

\* GET /route/{route_id} once the first request is answered: get_route and
\* its endpoint.  The id is any identifier issued so far or the next, which
\* no row carries.  A query may fail; RouteResponse(...) may refuse the row
\* of a route that no calculate_route call has returned, and accepts the
\* row of a returned one again, since it reads back the same values.
GetRoute ==
    /\ pc = "done"
    /\ served < MaxLookups
    /\ \E route_id \in 1..nextId, outcome \in {"query_fails", "response_fails", "ok"} :
        LET found == { r \in routes : r.id = route_id }
            returned == \E i \in 1..Len(results) : results[i].route_id = route_id
        IN  /\ outcome = "response_fails" => (found # {} /\ ~returned)
            /\ req' = [kind |-> "get_route", route_id |-> route_id]
            /\ IF outcome = "query_fails"
               THEN /\ exc' = QueryError
                    /\ http' = RetrieveFailed
                    /\ log' = {"Error retrieving route"}
               ELSE IF found = {}
               THEN /\ exc' = NoExc
                    /\ http' = RouteNotFound
                    /\ log' = {}
               ELSE IF outcome = "response_fails"
               THEN /\ exc' = ValidationError
                    /\ http' = RetrieveFailed
                    /\ log' = {"Error retrieving route"}
               ELSE /\ exc' = NoExc
                    /\ http' = Ok(RouteResponse(CHOOSE r \in found : TRUE,
                                                OrderedSegments(SegmentsOf(route_id))))
                    /\ log' = {}
    /\ served' = served + 1
    /\ UNCHANGED <<world, engine, pricing, store, nextId, now, delivered, pc, stage, locals>>

InitStore ==
    /\ nearest = [c \in Coords |-> IF c = 1 THEN 1 ELSE 3]
    /\ floodExposed = {}
    /\ hazards = {}
    /\ engine = NoEngine
    /\ settings = DefaultSettings
    /\ Fresh

NextStore ==
    \/ StartCalculate
    \/ StartCompare
    \/ FindOrigin
    \/ FindDestination
    \/ Search
    \/ CommitRoute
    \/ CommitSegments
    \/ CompareFinish
    \/ GetRoute

\* one calculate or compare request on an empty store, then reads of
\* stored routes by id
StoreSpec == InitStore /\ [][NextStore]_vars

NextCompareSeq ==
    \/ StartCompare
    \/ FindOrigin
    \/ FindDestination
    \/ Search
    \/ CommitRoute
    \/ CommitSegments
    \/ CompareFinish
    \/ Again

\* a sequence of compare requests of one client on the same store
CompareSeqSpec == InitStore /\ [][NextCompareSeq]_vars

\* ------------------------------------------------- the route type check
\* the strings a caller may send as route_type
RouteTypeStrings == RouteTypes \cup {"scenic"}

\* RouteRequest.validate_route_type
ValidateRouteType(v) == v \in RouteTypes

\* the answer to a request body that fails the RouteRequest schema
Unprocessable ==
    [status |-> 422, detail |-> "route_type must be one of: fastest, safest, balanced",
     body |-> <<>>]

\* POST /calculate with any route_type string: the body is parsed into a
\* RouteRequest first, and the endpoint runs only when the validator passes
PostCalculate ==
    \E o \in Coords, t \in RouteTypeStrings, a \in AvoidLists :
        \E d \in Coords \ {o} :
            IF ValidateRouteType(t)
            THEN Start("calculate", o, d, t, a)
            ELSE /\ pc = "idle"
                 /\ req' = [kind |-> "calculate", origin |-> o, destination |-> d,
                            route_type |-> t, avoid |-> a, depart_time |-> NoDepart]
                 /\ http' = Unprocessable
                 /\ pc' = "done"
                 /\ UNCHANGED <<world, engine, pricing, store, nextId, now, served, delivered, stage,
                                locals, exc, log>>

\* RoutingService(db).calculate_route(...) called by code of the
\* application itself, with any route_type string
CallCalculateRoute ==
    \E o \in Coords, t \in RouteTypeStrings, a \in AvoidLists :
        \E d \in Coords \ {o} : Start("direct", o, d, t, a)

InitProfile ==
    /\ Init
    /\ floodExposed = {}

NextProfile ==
    \/ PostCalculate
    \/ CallCalculateRoute
    \/ FindOrigin
    \/ FindDestination
    \/ Search
    \/ CommitRoute
    \/ CommitSegments

\* one route request with any route_type string, through the endpoint or
\* straight to the service
ProfileSpec == InitProfile /\ [][NextProfile]_vars

\* the same request under the event loop's scheduling: the awaited search
\* coroutine, once called, is run
FairSearchSpec == InitProfile /\ [][NextProfile]_vars /\ WF_vars(Search)

\* ------------------------------------------------ time-dependent requests
\* the hazard features the ingestion job may load: an alert over road 1
\* that ends at time 1, and a zone over road 2 with no end
HazardFeatures ==
    { [road |-> 1, effective_end |-> 1],
      [road |-> 2, effective_end |-> NoEnd] }

\* the departure times a caller may supply
DepartTimes == {1, 2}

\* POST /calculate with a depart_time, avoiding floods
StartTimed ==
    \E o \in Coords, t \in RouteTypes, depart_time \in DepartTimes :
        \E d \in Coords \ {o} : StartAt("calculate", o, d, t, <<"flood">>, depart_time)

\* the ingestion job replaces the hazard features and their intersections
\* with the roads.  No request is in progress: the service reads neither
\* table, so the moment of the refresh within a request changes nothing.
IngestHazards ==
    /\ pc = "idle"
    /\ version < MaxRefresh
    /\ version' = version + 1
    /\ hazards' \in SUBSET HazardFeatures
    /\ floodExposed' = { h.road : h \in hazards' }
    /\ UNCHANGED <<nearest, engine, pricing, store, nextId, now, served, delivered, pc, req, stage, locals,
                   exc, http, log>>

InitTime ==
    /\ nearest = [c \in Coords |-> IF c = 1 THEN 1 ELSE 3]
    /\ hazards \in SUBSET HazardFeatures
    /\ floodExposed = { h.road : h \in hazards }
    /\ engine = NoEngine
    /\ settings = DefaultSettings
    /\ Fresh

NextTime ==
    \/ StartTimed
    \/ FindOrigin
    \/ FindDestination
    \/ Search
    \/ CommitRoute
    \/ CommitSegments
    \/ IngestHazards
    \/ Again

\* a sequence of route requests with a depart_time, between refreshes of
\* the hazard features
TimeSpec == InitTime /\ [][NextTime]_vars

\* ------------------------------------------- hazard exposure per snapshot
\* exposures of an edge: the hazard features of a snapshot that intersect it
Exposures(e, H) == { h \in H : h.road = e }

CacheLookupByEdge(cache, e, v) == { c \in cache : c.edge = e }

\* the cache entries under the key (edge_id, hazard_snapshot_version)
CacheLookup(cache, e, v) == { c \in cache : c.edge = e /\ c.version = v }

\* load_snapshot: a new immutable hazard snapshot becomes the active one in
\* one step; cache entries are kept only for the version a query in
\* flight is pinned to
LoadSnapshot ==
    /\ version < MaxRefresh
    /\ version' = version + 1
    /\ hazards' \in SUBSET HazardFeatures
    /\ floodExposed' = { h.road : h \in hazards' }
    /\ engine' = [engine EXCEPT
                     !.snapshots = Append(@, hazards'),
                     !.cache = { c \in @ : c.version = engine.pinned }]
    /\ UNCHANGED <<nearest, pricing, store, nextId, now, served, delivered, pc, req, stage, locals,
                   exc, http, log>>

\* a query starts: it is pinned to current_snapshot_version()
PinQuery ==
    /\ engine.pinned = NoPin
    /\ engine' = [engine EXCEPT !.pinned = version]
    /\ UNCHANGED <<world, pricing, store, nextId, now, served, delivered, pc, req, stage, locals,
                   exc, http, log>>

\* exposures_for_edge(edge) for the query in flight: the cached entry of
\* its version, computed from that version's hazard set on a miss
ExposuresForEdge ==
    /\ engine.pinned # NoPin
    /\ \E e \in Roads :
        LET v == engine.pinned
            hit == CacheLookup(engine.cache, e, v)
            entry == IF hit # {}
                     THEN CHOOSE c \in hit : TRUE
                     ELSE [edge |-> e, version |-> v,
                           exposures |-> Exposures(e, engine.snapshots[v + 1])]
        IN  engine' = [engine EXCEPT !.cache = @ \cup {entry},
                                     !.served = @ \cup {entry}]
    /\ UNCHANGED <<world, pricing, store, nextId, now, served, delivered, pc, req, stage, locals,
                   exc, http, log>>

\* the query ends
FinishQuery ==
    /\ engine.pinned # NoPin
    /\ engine' = [engine EXCEPT !.pinned = NoPin, !.served = {}]
    /\ UNCHANGED <<world, pricing, store, nextId, now, served, delivered, pc, req, stage, locals,
                   exc, http, log>>

InitExposure ==
    /\ nearest = [c \in Coords |-> IF c = 1 THEN 1 ELSE 3]
    /\ hazards \in SUBSET HazardFeatures
    /\ floodExposed = { h.road : h \in hazards }
    /\ engine = [NoEngine EXCEPT !.snapshots = <<hazards>>]
    /\ settings = DefaultSettings
    /\ Fresh

NextExposure ==
    \/ LoadSnapshot
    \/ PinQuery
    \/ ExposuresForEdge
    \/ FinishQuery

\* queries for edge exposures against hazard snapshots that are replaced
\* while they run
ExposureSpec == InitExposure /\ [][NextExposure]_vars

\* ------------------------------------------------------- the HTTP surface
\* A path is the list of its segments: "/health" is <<"health">>, "/" is
\* <<"">>, and a trailing slash is an empty last segment.  A string of
\* words is the list of its words.
AppName == <<"Climate-Aware", "GPS", "Navigator">>     \* settings.app_name
ApiPrefix == <<"api", "v1">>                           \* settings.api_prefix
HealthPath == <<"health">>
RootPath == <<"">>
DocsPath == <<"docs">>
CalculatePath == ApiPrefix \o <<"routing", "calculate">>
HazardTypesPath == ApiPrefix \o <<"hazards", "types">>
NearbyHazardsPath == ApiPrefix \o <<"routing", "nearby-hazards">>

\* the root of each API prefix: /api/v1/routing/ and so on
Routers == {"routing", "hazards", "explanations"}
PrefixRoots == { ApiPrefix \o <<r, "">> : r \in Routers }

HttpRoute(method, path, endpoint) == [method |-> method, path |-> path, endpoint |-> endpoint]

\* the routes of app.main_simple, with the documentation routes FastAPI
\* adds for docs_url and redoc_url
DemoRoutes ==
    { HttpRoute("GET", HealthPath, "health_check"),
      HttpRoute("GET", RootPath, "root"),
      HttpRoute("POST", CalculatePath, "calculate_route_demo"),
      HttpRoute("GET", HazardTypesPath, "get_hazard_types_demo"),
      HttpRoute("GET", NearbyHazardsPath, "get_nearby_hazards_demo"),
      HttpRoute("GET", DocsPath, "docs"),
      HttpRoute("GET", <<"redoc">>, "docs"),
      HttpRoute("GET", <<"openapi.json">>, "docs") }

\* the routes of one router under its prefix; "{}" is a path parameter
Mounted(router, table) ==
    { HttpRoute(r[1], ApiPrefix \o <<router>> \o r[2], r[3]) : r \in table }

\* app/api/routes.py: the three endpoint routers under the API prefix
ApiRoutes ==
    Mounted("routing",
            { <<"POST", <<"calculate">>, "calculate_route">>,
              <<"POST", <<"compare">>, "compare_routes">>,
              <<"GET", <<"route", "{}">>, "get_route">>,
              <<"GET", <<"nearby-hazards">>, "get_nearby_hazards">>,
              <<"GET", <<"route-risk-analysis", "{}">>, "analyze_route_risk">> })
    \cup
    Mounted("hazards",
            { <<"GET", <<"tiles", "{}", "{}", "{}">>, "get_hazard_tiles">>,
              <<"GET", <<"types">>, "get_hazard_types">>,
              <<"GET", <<"alerts">>, "get_weather_alerts">>,
              <<"GET", <<"flood-zones">>, "get_flood_zones">>,
              <<"GET", <<"river-gauges">>, "get_river_gauges">>,
              <<"GET", <<"sources">>, "get_hazard_sources">> })
    \cup
    Mounted("explanations",
            { <<"POST", <<"generate">>, "generate_route_explanation">>,
              <<"GET", <<"route", "{}">>, "get_route_explanation">>,
              <<"GET", <<"templates">>, "get_explanation_templates">>,
              <<"GET", <<"sources", "{}">>, "get_explanation_sources">>,
              <<"POST", <<"regenerate", "{}">>, "regenerate_route_explanation">>,
              <<"GET", <<"quality", "{}">>, "get_explanation_quality">> })

\* the requests a client may send
Methods == {"GET", "POST"}
RequestPaths ==
    PrefixRoots \cup
    { HealthPath, RootPath, DocsPath, CalculatePath, CalculatePath \o <<"">>,
      HazardTypesPath, NearbyHazardsPath, <<"nowhere">> }

\* the route's path pattern matches the request path
PathMatches(pattern, path) ==
    /\ Len(pattern) = Len(path)
    /\ \A i \in 1..Len(path) :
          \/ pattern[i] = path[i]
          \/ pattern[i] = "{}" /\ path[i] # ""

\* the path with its trailing slash removed, or added when it has none
ToggleSlash(path) ==
    IF path[Len(path)] = "" THEN SubSeq(path, 1, Len(path) - 1) ELSE path \o <<"">>

ErrorResponse(status) ==
    [status |-> status,
     detail |-> IF status = 405 THEN "Method Not Allowed"
                ELSE IF status = 404 THEN "Not Found" ELSE "",
     body |-> <<>>]

\* the router's dispatch: the endpoint whose path and method match; 405
\* when only the path matches; a redirect when the path matches with its
\* slash toggled; otherwise 404
Dispatch(table, method, path) ==
    LET on_path == { r \in table : PathMatches(r.path, path) }
        full == { r \in on_path : r.method = method }
    IN  IF full # {}
        THEN [routed |-> TRUE, endpoint |-> (CHOOSE r \in full : TRUE).endpoint, status |-> 200]
        ELSE [routed |-> FALSE, endpoint |-> "",
              status |-> IF on_path # {} THEN 405
                         ELSE IF path # RootPath
                                 /\ \E r \in table : PathMatches(r.path, ToggleSlash(path))
                              THEN 307
                              ELSE 404]

HealthCheckBodyByTitle ==
    [status |-> "healthy", service |-> <<"GPS", "Navigator", "API">>,
     version |-> "1.0.0", mode |-> "demo"]

\* health_check
HealthCheckBody ==
    [status |-> "healthy", service |-> AppName, version |-> "1.0.0", mode |-> "demo"]

\* root
RootBody ==
    [service |-> AppName,
     description |-> "Climate-Aware GPS Navigator API (Demo Mode)",
     version |-> "1.0.0",
     docs |-> "/docs",
     health |-> "/health"]

\* calculate_route_demo: the mock route, with two fresh uuid4 values
MockRoute(id, t) ==
    [route_id |-> id,
     route_type |-> "balanced",
     total_distance_meters |-> 450000,
     total_duration_seconds |-> 7200,
     risk_score |-> 25,
     segments |-> << [segment_id |-> id + 1, road_name |-> "I-45 S",
                      distance_meters |-> 450000, duration_seconds |-> 7200,
                      risk_score |-> 25, hazards |-> <<>>] >>,
     risk_factors |-> [flood |-> 15, weather |-> 10],
     avoided_hazards |-> << [type |-> "flood", severity |-> "moderate"],
                            [type |-> "weather", severity |-> "minor"] >>,
     calculated_at |-> t,
     valid_until |-> NoEnd]

\* get_hazard_types_demo
HazardTypesBody ==
    [hazard_types |-> << [type |-> "flood", count |-> 15],
                         [type |-> "weather", count |-> 8],
                         [type |-> "river", count |-> 12] >>,
     total_count |-> 35]

\* get_nearby_hazards_demo: two mock hazards, with two fresh uuid4 values
NearbyHazardsBody(id) ==
    [radius_km |-> 10,
     hazards |-> << [id |-> id, type |-> "flood", severity |-> "moderate",
                     distance_meters |-> 2500],
                    [id |-> id + 1, type |-> "weather", severity |-> "minor",
                     distance_meters |-> 5000] >>]

\* the application answers one request, drawing ids fresh uuid4 values
Answer(app, method, path, response, ids) ==
    /\ pc = "idle"
    /\ served < MaxRequests
    /\ served' = served + 1
    /\ req' = [kind |-> "http", app |-> app, method |-> method, path |-> path]
    /\ http' = response
    /\ nextId' = nextId + ids
    /\ UNCHANGED <<world, engine, pricing, store, now, delivered, pc, stage, locals, exc, log>>

\* a request that app.main_simple routes to the endpoint
Handle(endpoint, body, ids) ==
    \E method \in Methods, path \in RequestPaths :
        /\ Dispatch(DemoRoutes, method, path).endpoint = endpoint
        /\ Answer("main_simple", method, path, Ok(body), ids)

HealthCheck == Handle("health_check", HealthCheckBody, 0)

Root == Handle("root", RootBody, 0)

CalculateRouteDemo == Handle("calculate_route_demo", MockRoute(nextId, now), 2)

GetHazardTypesDemo == Handle("get_hazard_types_demo", HazardTypesBody, 0)

GetNearbyHazardsDemo == Handle("get_nearby_hazards_demo", NearbyHazardsBody(nextId), 2)

\* the documentation page
Docs == Handle("docs", [content_type |-> "text/html"], 0)

\* a request that matches no route of the application's table
Unrouted(app, table) ==
    \E method \in Methods, path \in RequestPaths :
        LET d == Dispatch(table, method, path)
        IN  /\ ~d.routed
            /\ Answer(app, method, path, ErrorResponse(d.status), 0)

\* app.main_simple
NotRouted == Unrouted("main_simple", DemoRoutes)

\* the application that mounts the routers of app/api/routes.py
ApiNotRouted == Unrouted("main", ApiRoutes)

\* the demo application's clock
AppTick ==
    /\ now < MaxTime
    /\ pc = "idle"
    /\ req.kind = "http"
    /\ now' = now + 1
    /\ UNCHANGED <<world, engine, pricing, store, nextId, served, delivered, pc, req, stage, locals,
                   exc, http, log>>

InitApp ==
    /\ nearest = [c \in Coords |-> NoNode]
    /\ floodExposed = {}
    /\ hazards = {}
    /\ engine = NoEngine
    /\ settings = DefaultSettings
    /\ Fresh

NextApp ==
    \/ HealthCheck
    \/ Root
    \/ CalculateRouteDemo
    \/ GetHazardTypesDemo
    \/ GetNearbyHazardsDemo
    \/ Docs
    \/ NotRouted
    \/ ApiNotRouted
    \/ AppTick

\* a sequence of HTTP requests to the application
AppSpec == InitApp /\ [][NextApp]_vars

\* ------------------------------------------- hazard endpoints with a bbox
\* A bbox string is the list of its comma-separated fields, bbox.split(","):
\* "" is <<"">>.  An absent parameter is None.
NoBBox == <<>>
Numerals == {"-97", "33"}
BBoxFields == Numerals \cup {"abc", ""}
BBoxStrings == UNION { [1..n -> BBoxFields] : n \in 1..MaxFields }

\* float(c.strip()) returns; it raises ValueError otherwise
IsNumber(c) == c \in Numerals

\* if bbox: a string is true unless it is empty
Truthy(bbox) == bbox # NoBBox /\ bbox # <<"">>

\* /alerts, /flood-zones, /river-gauges: bbox_coords stays None unless the
\* string is true, every field parses and there are four of them
ParseOptionalBBox(bbox) ==
    IF ~Truthy(bbox) THEN [error |-> FALSE, bbox_coords |-> NoBBox]
    ELSE IF \E i \in 1..Len(bbox) : ~IsNumber(bbox[i])
    THEN [error |-> TRUE, bbox_coords |-> NoBBox]
    ELSE IF Len(bbox) = 4 THEN [error |-> FALSE, bbox_coords |-> bbox]
    ELSE [error |-> FALSE, bbox_coords |-> NoBBox]

\* /sources: a count other than four raises ValueError too
ParseRequiredBBox(bbox) ==
    IF (\E i \in 1..Len(bbox) : ~IsNumber(bbox[i])) \/ Len(bbox) # 4
    THEN [error |-> TRUE, bbox_coords |-> NoBBox]
    ELSE [error |-> FALSE, bbox_coords |-> bbox]

InvalidBBox == [status |-> 400, detail |-> "Invalid bounding box format", body |-> <<>>]

\* one GET of a hazard endpoint: parse the bbox, call the hazard service
\* (which returns rows or raises), answer.  A required parameter that is
\* absent is refused before the endpoint runs.
HazardQuery(endpoint, required, what, failed) ==
    /\ pc = "idle"
    /\ \E service_fails \in BOOLEAN, bbox \in BBoxStrings \cup {NoBBox} :
        LET parsed == IF required THEN ParseRequiredBBox(bbox) ELSE ParseOptionalBBox(bbox)
        IN  /\ req' = [kind |-> "hazards", endpoint |-> endpoint, bbox |-> bbox]
            /\ IF required /\ bbox = NoBBox
               THEN http' = ErrorResponse(422) /\ log' = {}
               ELSE IF parsed.error
               THEN http' = InvalidBBox /\ log' = {}
               ELSE IF service_fails
               THEN /\ http' = [status |-> 500, detail |-> failed, body |-> <<>>]
                    /\ log' = {what}
               ELSE /\ http' = Ok([total_count |-> 0, bbox |-> parsed.bbox_coords])
                    /\ log' = {}
    /\ pc' = "done"
    /\ UNCHANGED <<world, engine, pricing, store, nextId, now, served, delivered, stage, locals,
                   exc>>

GetWeatherAlerts ==
    HazardQuery("get_weather_alerts", FALSE, "Error retrieving weather alerts",
                "Failed to retrieve weather alerts")

GetFloodZones ==
    HazardQuery("get_flood_zones", FALSE, "Error retrieving flood zones",
                "Failed to retrieve flood zones")

GetRiverGauges ==
    HazardQuery("get_river_gauges", FALSE, "Error retrieving river gauges",
                "Failed to retrieve river gauges")

GetHazardSources ==
    HazardQuery("get_hazard_sources", TRUE, "Error retrieving hazard sources",
                "Failed to retrieve hazard sources")

NextBBox ==
    \/ GetWeatherAlerts
    \/ GetFloodZones
    \/ GetRiverGauges
    \/ GetHazardSources

\* one GET request to a hazard endpoint that takes a bbox
BBoxSpec == InitApp /\ [][NextBBox]_vars

\* compare_routes from the point where its three calculate_route calls have
\* returned, for routes of any risk score and duration
RiskLevels == { 10 * k : k \in 0..MaxRisk }
Durations == { 600 * k : k \in 1..MaxDur }

ReturnedRoute(id, r, route_type, risk, duration) ==
    LET rr == [PgRoutingRoute(1, 3, route_type, <<"flood">>, 0)
                 EXCEPT !.risk_score = risk, !.total_duration = duration]
    IN  RouteRow(id, r, rr, route_type, 0)

InitMetric ==
    \E fr \in RiskLevels, sr \in RiskLevels, fd \in Durations, sd \in Durations :
        LET r == [kind |-> "compare", origin |-> 1, destination |-> 2,
                  route_type |-> "", avoid |-> NoAvoid, depart_time |-> NoDepart]
            rr == PgRoutingRoute(1, 3, "", <<"flood">>, 0)
            rows == << ReturnedRoute(1, r, "fastest", fr, fd),
                       ReturnedRoute(3, r, "safest", sr, sd),
                       ReturnedRoute(5, r, "balanced", rr.risk_score, rr.total_duration) >>
            segs == [i \in 1..3 |-> SegmentRows(2 * i, 2 * i - 1, rr)]
        IN  /\ nearest = [c \in Coords |-> IF c = 1 THEN 1 ELSE 3]
            /\ floodExposed = {}
            /\ hazards = {}
            /\ engine = NoEngine
            /\ settings = DefaultSettings
            /\ version = 0
            /\ routes = { rows[i] : i \in 1..3 }
            /\ segments = UNION { segs[i] : i \in 1..3 }
            /\ comparisons = {}
            /\ nextId = 7
            /\ now = 0
            /\ served = 0
            /\ delivered = <<>>
            /\ pc = "compare_metrics"
            /\ req = r
            /\ stage = 3
            /\ origin_node = 1
            /\ destination_node = 3
            /\ snap = [i \in 1..6 |-> [version |-> 0, node |-> IF i % 2 = 1 THEN 1 ELSE 3]]
            /\ route_result = rr
            /\ route = 5
            /\ results = [i \in 1..3 |-> RouteResponse(rows[i], OrderedSegments(segs[i]))]
            /\ metrics = <<>>
            /\ exc = NoExc
            /\ http = NoHttp
            /\ log = {}
            /\ cost = NoCost

NextMetric == CompareFinish

MetricSpec == InitMetric /\ [][NextMetric]_vars

\* ------------------------------------------------------ the road graph
\* the simple paths of the road graph from node o to node d, as road lists
SimplePaths(o, d) ==
    { p \in UNION { [1..n -> Roads] : n \in 1..Cardinality(Roads) } :
        /\ RoadFrom[p[1]] = o
        /\ RoadTo[p[Len(p)]] = d
        /\ \A i \in 1..(Len(p) - 1) : RoadTo[p[i]] = RoadFrom[p[i + 1]]
        /\ \A i, j \in 1..Len(p) : i # j => p[i] # p[j] }

\* the number of roads of a path with an active flood exposure
Exposure(p) == Cardinality({ i \in 1..Len(p) : p[i] \in floodExposed })

\* some path from o to d uses no road with an active flood exposure
FloodFreePathExists(o, d) ==
    o = d \/ \E p \in SimplePaths(o, d) : Exposure(p) = 0

\* some path from o to d is strictly less exposed than another
StrictlySaferPathExists(o, d) ==
    \E p \in SimplePaths(o, d), q \in SimplePaths(o, d) : Exposure(p) < Exposure(q)

\* the roads of a search result
ResultRoads(rr) == { rr.segments[i].road_id : i \in 1..Len(rr.segments) }

Range(f) == { f[i] : i \in DOMAIN f }

\* travel_time_seconds of roads 1, 2, 3: A-B-C takes 900 s, A-C 1200 s
TravelTime == <<600, 300, 1200>>

\* the base cost of a path: the sum of its roads' travel times
RECURSIVE BaseCost(_)
BaseCost(p) == IF p = <<>> THEN 0 ELSE TravelTime[Head(p)] + BaseCost(Tail(p))

\* the paths from o to d left when the roads excluded for the avoid list
\* are removed from the graph
AllowedPaths(o, d, avoid) ==
    { p \in SimplePaths(o, d) : "flood" \in Range(avoid) => Exposure(p) = 0 }

\* length_meters of roads 1, 2, 3: A-B-C is as long as A-C, 10000 m
LengthMeters == <<5000, 5000, 10000>>

\* the length of a path: the sum of its roads' lengths
RECURSIVE PathLength(_)
PathLength(p) == IF p = <<>> THEN 0 ELSE LengthMeters[Head(p)] + PathLength(Tail(p))

\* the node ids along a path of roads, from its first node to its last
PathNodes(p) == <<RoadFrom[p[1]]>> \o [i \in 1..Len(p) |-> RoadTo[p[i]]]

\* the road ids of a search result in segment order
ResultPath(rr) == [i \in 1..Len(rr.segments) |-> rr.segments[i].road_id]

\* ------------------------------------------------------ risk cost model
\* the values an environment variable may give a weight: Settings declares
\* each weight as a plain float, so any number is accepted
EnvWeights == {-MaxWeight, 0, MaxWeight}

\* Settings(): each weight is its default unless the environment sets it
SettingsChoices ==
    { st \in [DOMAIN DefaultSettings ->
                 EnvWeights \cup { DefaultSettings[f] : f \in DOMAIN DefaultSettings }] :
        \A f \in DOMAIN DefaultSettings : st[f] \in EnvWeights \cup {DefaultSettings[f]} }

\* the weight category of a hazard type and the setting that holds it
WeightField ==
    [floodplain |-> "floodplain_weight",
     river_forecast |-> "river_forecast_weight",
     rain_intensity |-> "rain_intensity_weight",
     alert_severity |-> "alert_severity_weight",
     historic_incident |-> "historic_incident_weight"]

\* configured_weight(type): unrecognized hazard types weigh zero
ConfiguredWeight(type, st) ==
    IF type \in DOMAIN WeightField THEN st[WeightField[type]] ELSE 0

\* the exposures of roads 1, 2, 3: hazard type, severity weight, measure
\* in tenths of the road's length, end of validity
EdgeExposures ==
    << { [type |-> "floodplain", severity |-> 2, measure |-> 10, effective_end |-> NoEnd],
         [type |-> "alert_severity", severity |-> 1, measure |-> 5, effective_end |-> 1] },
       { [type |-> "river_forecast", severity |-> 2, measure |-> 10, effective_end |-> NoEnd],
         [type |-> "rain_intensity", severity |-> 1, measure |-> 5, effective_end |-> NoEnd],
         [type |-> "wildfire", severity |-> 3, measure |-> 10, effective_end |-> NoEnd] },
       { [type |-> "historic_incident", severity |-> 1, measure |-> 3,
          effective_end |-> NoEnd] } >>

\* the exposures of a road that are active at time t
ActiveExposures(e, t) ==
    { x \in EdgeExposures[e] : x.effective_end = NoEnd \/ t <= x.effective_end }

\* risk term: the sum over the exposures X of
\* severity_weight x measure x configured_weight, in thousandths
RECURSIVE RiskTerm(_, _)
RiskTerm(X, st) ==
    IF X = {} THEN 0
    ELSE LET x == CHOOSE y \in X : TRUE
         IN  x.severity * x.measure * ConfiguredWeight(x.type, st) + RiskTerm(X \ {x}, st)

\* the factor K of the risk term per profile
KSafest == 10
ProfileFactor(profile) ==
    IF profile = "fastest" THEN 0
    ELSE IF profile = "safest" THEN KSafest
    ELSE 1

\* edge_cost(edge, profile, depart_time) under the weights st at call time
\* t, in thousandths: base cost plus K times the risk term
EdgeCost(e, profile, depart_time, st, t) ==
    LET at == IF depart_time = NoDepart THEN t ELSE depart_time
    IN  1000 * TravelTime[e] + ProfileFactor(profile) * 10 * RiskTerm(ActiveExposures(e, at), st)

\* one call of edge_cost
EdgeCostCall ==
    /\ pc = "idle"
    /\ \E e \in Roads, profile \in RouteTypes, depart_time \in DepartTimes \cup {NoDepart} :
        /\ req' = [kind |-> "edge_cost", edge |-> e, profile |-> profile,
                   depart_time |-> depart_time]
        /\ cost' = [computed |-> TRUE,
                    value |-> EdgeCost(e, profile, depart_time, settings, now)]
    /\ pc' = "done"
    /\ UNCHANGED <<world, engine, settings, store, nextId, now, served, delivered, stage,
                   locals, exc, http, log>>

InitCost ==
    /\ nearest = [c \in Coords |-> IF c = 1 THEN 1 ELSE 3]
    /\ floodExposed = {}
    /\ hazards = {}
    /\ engine = NoEngine
    /\ settings \in SettingsChoices
    /\ Fresh

NextCost == EdgeCostCall

\* the cost of one edge under any configuration of the weights
CostSpec == InitCost /\ [][NextCost]_vars

\* ------------------------------------------------------------- claims
\* a comparison that has been answered
CompareDone == pc = "done" /\ req.kind = "compare"

Searched == route_result.found \/ exc = NoRouteFoundError

\* C2: hard exclusion.  For a request whose avoid list contains "flood": if
\* some origin-to-destination path uses no road with an active flood
\* exposure, the route the search returns contains no such road; if no such
\* path exists, the search ends without a route (NoRouteFound).
C2_HardExclusion ==
    (Searched /\ "flood" \in Range(req.avoid))
        => IF FloodFreePathExists(origin_node, destination_node)
           THEN route_result.found => ResultRoads(route_result) \cap floodExposed = {}
           ELSE ~route_result.found

\* a search of this comparison has ended without a route
CompareSearchFailed ==
    req.kind = "compare" /\ "Error in pgRouting calculation" \in log

\* C3: in compare_routes, when any of the three searches ends in
\* NoRouteFound the whole comparison fails with NoRouteFound, and no
\* comparison result, complete or partial, reaches the caller.
C3_NoPartialComparison ==
    CompareSearchFailed
        => /\ pc = "done"
           /\ exc = NoRouteFoundError
           /\ http.status # 200
           /\ http.body = <<>>
           /\ metrics = <<>>
           /\ comparisons = {}

\* the third search of a comparison failed after two routes were returned
C3_Witness ==
    CompareSearchFailed /\ pc = "done" /\ stage = 3 /\ Len(results) = 2

\* C4: in compare_routes the three searches use the same resolved origin
\* node, the same resolved destination node and the same snapshot version,
\* whatever refresh runs concurrently.
C4_OneSnapshot ==
    (req.kind = "compare" /\ Len(results) = 3)
        => \A i \in DOMAIN snap, j \in DOMAIN snap :
              /\ snap[i].version = snap[j].version
              /\ (i % 2 = j % 2) => snap[i].node = snap[j].node

\* C7: in every comparison result for which a strictly safer path exists,
\* reachable without hard exclusions,
\* fastest.risk_score >= balanced.risk_score >= safest.risk_score.
C7_RiskOrdering ==
    (CompareDone /\ http.status = 200
       /\ StrictlySaferPathExists(origin_node, destination_node))
        => /\ http.body[1].fastest_route.risk_score
                >= http.body[1].balanced_route.risk_score
           /\ http.body[1].balanced_route.risk_score
                >= http.body[1].safest_route.risk_score

\* a comparison was returned for endpoints joined by a safer and a riskier path
C7_Witness ==
    /\ CompareDone
    /\ http.status = 200
    /\ StrictlySaferPathExists(origin_node, destination_node)

\* C8: NotFound, NoRouteFound and InvalidProfile reach the caller as
\* distinct typed outcomes: what the caller observes for a request that
\* failed with NotFound differs from what it observes for NoRouteFound and
\* from the generic failure it observes for an internal error.
C8_TypedOutcomes ==
    (pc = "done" /\ exc = NotFoundError)
        => /\ http # EndpointError(req.kind, NoRouteFoundError)
           /\ http # EndpointError(req.kind, CommitError)

\* the lookups of the call in progress are over
LookupsDone == pc \in {"search", "commit_route", "commit_segments", "compare_metrics", "done"}

\* C9: when no node lies within the search radius of the origin or of the
\* destination, calculate_route ends with the NotFound outcome: no search
\* is run, no route is returned and no route record is persisted.
C9_NotFound ==
    (LookupsDone /\ (origin_node = NoNode \/ destination_node = NoNode))
        => /\ pc = "done"
           /\ exc = NotFoundError
           /\ route_result = NoResult
           /\ route = 0
           /\ http.status # 200
           /\ Cardinality(routes) = Len(results)
           /\ Cardinality(segments) = Len(results)

\* the origin resolved, the destination has no node nearby, the call ended
C9_Witness ==
    /\ pc = "done"
    /\ origin_node # NoNode
    /\ destination_node = NoNode
    /\ nearest[req.destination] = NoNode
    /\ log = {"Error calculating route"}

\* C10: NoRouteFound is distinct from an internal error: a lookup or a
\* search that fails with an internal exception is never reported as
\* NotFound or NoRouteFound, and NoRouteFound is reported only when the
\* destination is unreachable in the graph left by the hard exclusions.
C10_InternalErrorDistinct ==
    /\ ("Error finding nearest node" \in log
          /\ nearest[req.origin] # NoNode /\ nearest[req.destination] # NoNode)
        => exc # NotFoundError
    /\ "Error in pgRouting calculation" \in log => exc # NoRouteFoundError
    /\ exc = NoRouteFoundError => ~FloodFreePathExists(origin_node, destination_node)

\* a route was returned for a request that was answered with a route before
Repeated(i) ==
    /\ pc = "done"
    /\ http.status = 200
    /\ i \in DOMAIN delivered
    /\ delivered[i].req = req

\* C5 as stated: two calls of calculate_route with identical origin,
\* destination, profile, avoid list and departure time against the same
\* snapshot return routes identical in every field.
C5_IdenticalRoutes ==
    \A i \in DOMAIN delivered : Repeated(i) => http.body[1] = delivered[i].route

\* a returned route without its identifiers and its timestamps
Payload(r) ==
    [route_type |-> r.route_type,
     total_distance_meters |-> r.total_distance_meters,
     total_duration_seconds |-> r.total_duration_seconds,
     risk_score |-> r.risk_score,
     risk_factors |-> r.risk_factors,
     avoided_hazards |-> r.avoided_hazards,
     segments |-> [k \in DOMAIN r.segments |->
                      [distance_meters |-> r.segments[k].distance_meters,
                       duration_seconds |-> r.segments[k].duration_seconds,
                       risk_score |-> r.segments[k].risk_score,
                       hazards |-> r.segments[k].hazards]]]

\* C5 amended: the two routes are identical in every field other than
\* route_id, the segment_id of each segment, calculated_at and valid_until.
C5_IdenticalPayload ==
    \A i \in DOMAIN delivered :
        Repeated(i) => Payload(http.body[1]) = Payload(delivered[i].route)

\* the same request was answered twice, at different times
C5_Witness ==
    \E i \in DOMAIN delivered :
        Repeated(i) /\ http.body[1].calculated_at # delivered[i].route.calculated_at

InvalidRouteType == pc # "idle" /\ ~ValidateRouteType(req.route_type)

\* C11: a route request whose route type is not one of fastest, safest,
\* balanced is rejected as an invalid profile on every entry path (the
\* RouteRequest schema and a direct call of calculate_route): no search
\* runs for it, and no route is returned or persisted.
C11_InvalidProfile ==
    InvalidRouteType
        => /\ route_result = NoResult
           /\ route = 0
           /\ routes = {}
           /\ results = <<>>
           /\ pc = "done" => (http = Unprocessable \/ exc # NoExc)

\* the hazard's validity ended before time t
ExpiredBefore(h, t) == h.effective_end # NoEnd /\ h.effective_end < t

\* two hazard sets that differ, and only in hazards expired before time t
DifferByExpired(H1, H2, t) ==
    /\ H1 # H2
    /\ \A h \in (H1 \ H2) \cup (H2 \ H1) : ExpiredBefore(h, t)

\* the risk figures of a returned route
RiskOf(r) ==
    [risk_score |-> r.risk_score,
     risk_factors |-> r.risk_factors,
     segments |-> [k \in DOMAIN r.segments |-> r.segments[k].risk_score]]

AtoCOverFlood ==
    /\ Searched
    /\ "Error in pgRouting calculation" \notin log
    /\ CurType = "fastest"
    /\ origin_node = 1
    /\ destination_node = 3
    /\ 2 \in floodExposed
    /\ 1 \notin floodExposed

\* C13: a request without avoidance (empty or absent avoid list) applies no
\* hard exclusion.  On the graph A->B->C with B->C in an active flood zone,
\* fastest without avoidance returns a path from A to C of the whole graph
\* (A-B-C when there is no other); with avoid = ["flood"] it returns the
\* alternate path A-C when that edge is not exposed, NoRouteFound when it is.
C13_AvoidanceScenario ==
    AtoCOverFlood
        => IF "flood" \in Range(req.avoid)
           THEN IF 3 \notin floodExposed
                THEN route_result.found /\ ResultPath(route_result) = <<3>>
                ELSE ~route_result.found
           ELSE /\ route_result.found
                /\ ResultPath(route_result) \in SimplePaths(1, 3)

\* the hazard features that intersect a road of the path
HazardsOn(path) == { h \in hazards : h.road \in Range(path) }

\* the hazards on the fastest route of the call in progress that are on no
\* road of the route it found
AvoidedVsFastest ==
    LET fastest == PgRoutingRoute(origin_node, destination_node, "fastest",
                                  EffectiveAvoid(req.avoid), req.depart_time)
    IN  HazardsOn(ResultPath(fastest)) \ HazardsOn(ResultPath(route_result))

\* C14: the avoided-hazards list of a delivered route is exactly the set of
\* hazards that intersect an edge of the fastest route for the same origin
\* and destination and no edge of the delivered route; the fastest route's
\* own list is empty.
C14_AvoidedHazards ==
    /\ route_result.found
          => Len(route_result.avoided_hazards) = Cardinality(AvoidedVsFastest)
    /\ \A i \in DOMAIN results :
          results[i].route_type = "fastest" => results[i].avoided_hazards = <<>>

\* C15: in compare, safety_trade_off_minutes is the safest route's duration
\* minus the fastest route's duration, in minutes, for every pair of
\* routes; it is negative when the safest route is the faster one.
C15_SafetyTradeOff ==
    (CompareDone /\ http.status = 200)
        => LET fd == results[1].total_duration_seconds
               sd == results[2].total_duration_seconds
               t == http.body[1].safety_trade_off_minutes
           IN  /\ t.den > 0
               /\ t.num * 60 = (sd - fd) * t.den
               /\ \A c \in comparisons : c.safety_trade_off_minutes = t

\* a comparison whose safest route takes 10 minutes less than its fastest
C15_Witness ==
    /\ CompareDone
    /\ http.status = 200
    /\ results[2].total_duration_seconds < results[1].total_duration_seconds
    /\ http.body[1].safety_trade_off_minutes = [num |-> -10, den |-> 1]

\* C16: a refresh installs a new snapshot by one atomic swap, and a search
\* reads one snapshot from its start to its end: all the reads of one
\* calculate_route call see the same version, the one current when the
\* call started, and never a mixture of old and new data.
C16_SearchReadsOneSnapshot ==
    (req.kind \in {"calculate", "direct"} /\ route_result.found)
        => \A i \in DOMAIN snap : snap[i].version = snap[1].version

GetAnswered(path) == req.kind = "http" /\ req.method = "GET" /\ req.path = path

\* C18: a GET request to the root of each API prefix (/api/v1/routing/,
\* /api/v1/hazards/, /api/v1/explanations/) is answered with status 200 or
\* 405, never with another status.
C18_PrefixRootsAnswer ==
    \A path \in PrefixRoots : GetAnswered(path) => http.status \in {200, 405}

\* the words of t appear in s, in order and next to each other
Contains(s, t) == \E i \in 0..(Len(s) - Len(t)) : SubSeq(s, i + 1, i + Len(t)) = t

\* C19: after any sequence of requests, GET /health answers 200 with status
\* "healthy" and a service name containing "Climate-Aware GPS Navigator",
\* and GET / answers 200 with service "Climate-Aware GPS Navigator" and a
\* "docs" entry.
C19_HealthAndRoot ==
    /\ (GetAnswered(HealthPath) /\ req.app = "main_simple")
          => /\ http.status = 200
             /\ http.body[1].status = "healthy"
             /\ Contains(http.body[1].service, <<"Climate-Aware", "GPS", "Navigator">>)
    /\ (GetAnswered(RootPath) /\ req.app = "main_simple")
          => /\ http.status = 200
             /\ http.body[1].service = <<"Climate-Aware", "GPS", "Navigator">>
             /\ "docs" \in DOMAIN http.body[1]

\* GET /health answered after other requests, a mock route among them
C19_Witness ==
    /\ GetAnswered(HealthPath)
    /\ req.app = "main_simple"
    /\ http.status = 200
    /\ served > 1
    /\ nextId > 1

\* C20: for the fastest profile, path selection uses base cost only: the
\* returned route is a path from origin to destination of minimum total
\* base cost among the paths of the graph with hard-excluded edges
\* removed, whatever the risk on its edges, and its risk score is still
\* reported.
C20_FastestByBaseCost ==
    (route_result.found /\ CurType = "fastest" /\ origin_node # destination_node)
        => LET allowed == AllowedPaths(origin_node, destination_node, req.avoid)
               path == ResultPath(route_result)
           IN  /\ path \in allowed
               /\ \A q \in allowed : BaseCost(path) <= BaseCost(q)
               /\ route_result.risk_score >= 0

\* a <= b in the lexicographic order of node-id sequences of equal length
LexLeq(a, b) ==
    \/ a = b
    \/ \E i \in 1..Len(a) : a[i] < b[i] /\ \A j \in 1..(i - 1) : a[j] = b[j]

\* p comes no later than q under the tie-break: fewer edges first, then the
\* smaller node-id sequence
TieBreakLeq(p, q) ==
    \/ Len(p) < Len(q)
    \/ Len(p) = Len(q) /\ LexLeq(PathNodes(p), PathNodes(q))

\* C21: tie-break.  Among all minimum-cost paths from origin to
\* destination the search returns the one with the fewest edges, and among
\* those with equally few edges the one whose node-id sequence is
\* lexicographically smallest.  Cost is road length here: the two A-to-C
\* paths tie at 10000 m.
C21_TieBreak ==
    (route_result.found /\ origin_node # destination_node)
        => LET allowed == AllowedPaths(origin_node, destination_node, req.avoid)
               best == { p \in allowed : \A q \in allowed : PathLength(p) <= PathLength(q) }
               path == ResultPath(route_result)
           IN  /\ path \in best
               /\ \A q \in best : TieBreakLeq(path, q)

\* the destination can be reached from the origin in the search graph
Reachable(o, d, avoid) == o = d \/ AllowedPaths(o, d, avoid) # {}

\* the outcome of a search fits the graph: a route only when the
\* destination can be reached
OutcomeFits ==
    route_result.found => Reachable(origin_node, destination_node, req.avoid)

\* C22: every search on a finite graph terminates: it eventually ends
\* either with a route once the destination is settled, or with
\* NoRouteFound once the frontier is exhausted without reaching the
\* destination.
C22_SearchTerminates ==
    /\ (pc = "search") ~> (pc # "search" /\ (route_result.found \/ exc = NoRouteFoundError))
    /\ []OutcomeFits

\* C23: for every edge, every profile (fastest, safest, balanced) and every
\* configured value of the five per-hazard-type weights, edge_cost is
\* non-negative and finite.
C23_EdgeCostNonNegative == cost.computed => cost.value >= 0

\* a single calculate_route call has ended by raising
CalculateRaised == pc = "done" /\ req.kind = "calculate" /\ exc # NoExc

\* C24: calculate_route is all-or-nothing on the store: if the call raises
\* at any step (node lookup, search, route commit, segment commit, response
\* construction), no Route record and no RouteSegment record created by
\* that call remains persisted.  The store is empty before the call.
C24_CalculateAllOrNothing == CalculateRaised => (routes = {} /\ segments = {})

\* a comparison has raised in its second or third calculate_route call,
\* before that call's first commit
LaterCallFailedEarly ==
    CompareDone /\ stage > 1 /\ exc \in {NotFoundError, NoRouteFoundError}

\* the route ids a comparison row refers to
ComparedRoutes(c) == {c.fastest_route_id, c.safest_route_id, c.balanced_route_id}

\* C25: compare_routes is all-or-nothing on the store: if the call raises
\* (a later one of the three route calculations fails, or the metric
\* computation fails), no Route, RouteSegment or RouteComparison record
\* created by that call remains persisted; equivalently, every Route
\* persisted during a comparison is referenced by a persisted
\* RouteComparison.  The store is empty before the call.  The case checked
\* is the one that owes nothing to C24: the call that raises has committed
\* nothing itself.
C25_CompareAllOrNothing ==
    LaterCallFailedEarly
        => /\ routes = {} /\ segments = {} /\ comparisons = {}
           /\ \A r \in routes : \E c \in comparisons : r.id \in ComparedRoutes(c)

\* a read of a stored route has been answered and its queries went through
GotRoute == pc = "done" /\ req.kind = "get_route" /\ exc # QueryError

\* two responses agree on what describes the route
SameRoute(a, b) ==
    /\ a.route_id = b.route_id
    /\ a.route_type = b.route_type
    /\ a.total_distance_meters = b.total_distance_meters
    /\ a.total_duration_seconds = b.total_duration_seconds
    /\ a.risk_score = b.risk_score
    /\ a.risk_factors = b.risk_factors
    /\ a.avoided_hazards = b.avoided_hazards
    /\ a.segments = b.segments

\* C26: round trip of a stored route: after calculate_route returns a
\* response with route_id r, get_route(r) returns a response with the same
\* route_type, total distance, total duration, risk score, risk factors,
\* avoided hazards and the same segments in the same order; get_route of an
\* id that was never stored returns None, which the endpoint reports as
\* 404.  (Where the database answers the queries.)
C26_RoundTrip ==
    GotRoute
        => /\ \A i \in 1..Len(results) :
                results[i].route_id = req.route_id
                    => (http.status = 200 /\ SameRoute(http.body[1], results[i]))
           /\ (\A r \in routes : r.id # req.route_id) => http = RouteNotFound

C26_Witness ==
    /\ GotRoute
    /\ \E i \in 1..Len(results) : results[i].route_id = req.route_id
    /\ http.status = 200
    /\ Len(http.body[1].segments) > 0
    /\ Cardinality(routes) > 1

\* the sum of the distances and of the durations of a list of segments
RECURSIVE SumDistance(_)
SumDistance(segs) ==
    IF segs = <<>> THEN 0 ELSE Head(segs).distance_meters + SumDistance(Tail(segs))

RECURSIVE SumDuration(_)
SumDuration(segs) ==
    IF segs = <<>> THEN 0 ELSE Head(segs).duration_seconds + SumDuration(Tail(segs))

\* C27: for every route produced by calculate_route, total_distance_meters
\* equals the sum of its segments' distance_meters and
\* total_duration_seconds equals the sum of its segments' duration_seconds.
C27_TotalsAreSums ==
    \A i \in 1..Len(results) :
        /\ results[i].total_distance_meters = SumDistance(results[i].segments)
        /\ results[i].total_duration_seconds = SumDuration(results[i].segments)

\* the route row x is the one a comparison names for a profile
RefersTo(c, x, id, route_type, duration, risk) ==
    /\ x.id = id
    /\ x.route_type = route_type
    /\ x.origin = c.origin
    /\ x.destination = c.destination
    /\ x.total_duration_seconds = duration
    /\ x.risk_score = risk

\* C28: in every reachable store state, each persisted RouteComparison
\* references three Route records that exist in the store, whose
\* route_type is fastest, safest and balanced respectively, whose origin
\* and destination coordinates equal the comparison's, and whose durations
\* and risk scores equal the fastest/safest/balanced values copied into
\* the comparison.
C28_ComparisonReferences ==
    \A c \in comparisons :
        /\ \E x \in routes :
              RefersTo(c, x, c.fastest_route_id, "fastest", c.fastest_duration, c.fastest_risk)
        /\ \E x \in routes :
              RefersTo(c, x, c.safest_route_id, "safest", c.safest_duration, c.safest_risk)
        /\ \E x \in routes :
              RefersTo(c, x, c.balanced_route_id, "balanced", c.balanced_duration,
                       c.balanced_risk)

C28_Witness ==
    /\ Cardinality(comparisons) > 1
    /\ \E c, e \in comparisons : c.origin # e.origin

\* the stored segment row behind a segment of a response
RowOf(seg) == CHOOSE s \in segments : s.id = seg.segment_id

\* C29: in every reachable store state, the RouteSegment records of one
\* route carry segment_order values 0..n-1 with no gap and no duplicate,
\* each references a persisted Route, and get_route returns them in
\* ascending segment_order.
C29_SegmentOrder ==
    /\ \A s \in segments : \E r \in routes : r.id = s.route_id
    /\ \A r \in routes :
          LET S == { s \in segments : s.route_id = r.id }
          IN  /\ { s.segment_order : s \in S } = 0..(Cardinality(S) - 1)
              /\ \A s, t \in S : s.segment_order = t.segment_order => s = t
    /\ (GotRoute /\ http.status = 200)
          => LET segs == http.body[1].segments
             IN  /\ { RowOf(segs[i]) : i \in 1..Len(segs) }
                        = { s \in segments : s.route_id = req.route_id }
                 /\ \A i, j \in 1..Len(segs) :
                        i < j => RowOf(segs[i]).segment_order < RowOf(segs[j]).segment_order

C29_Witness ==
    /\ GotRoute
    /\ http.status = 200
    /\ Cardinality(segments) = 3
    /\ \E s \in segments : s.route_id = req.route_id /\ s.segment_order = 0

\* a bbox was supplied, as a string that is not empty, and is not exactly
\* four comma-separated numbers
Malformed(bbox) ==
    /\ bbox # NoBBox
    /\ bbox # <<"">>
    /\ ~(Len(bbox) = 4 /\ \A i \in 1..Len(bbox) : IsNumber(bbox[i]))

\* C30: every hazard endpoint that takes a bbox parameter (/alerts,
\* /flood-zones, /river-gauges, /sources) rejects with status 400 a
\* supplied bbox that is not exactly four comma-separated numbers; a
\* malformed bbox is never silently treated as no bounding box, and the 400
\* is not converted into a 500.
C30_MalformedBBoxRejected ==
    (req.kind = "hazards" /\ Malformed(req.bbox)) => http = InvalidBBox

====
